---- MODULE Spec2Model ----
(***************************************************************************)
(* Day 20 "Jurassic Jigsaw" (src/src/day20.rs): tiles, their orientations, *)
(* border matching and the backtracking search for an arrangement.         *)
(*                                                                         *)
(* A Tile is a record [id, pixels]; pixels is a sequence of rows, each a   *)
(* sequence of one-character strings.  Coordinates are 0-based as in the   *)
(* source; sequences are 1-based, so tile[x][y] reads pixels[x+1][y+1].    *)
(***************************************************************************)
EXTENDS Integers, Sequences, FiniteSets, TLC

\* ----------------------------------------------------------------- bounds
\* Largest edge length of a tile whose orientations are enumerated.
MaxL == 3
\* Largest edge length of the tiles whose borders are matched pairwise.
MaxPairL == 2
\* Largest edge length of the square a coordinate is transformed in.
MaxLength == 3
\* Most transformations applied to one coordinate in a row.
MaxApplied == 2
\* Largest number of tiles handed to the search.
MaxTiles == 4

\* The pixel alphabet of the puzzle input: foreground and background.
Alphabet == {"#", "."}

\* ------------------------------------------------------------ Tile access
\* Index<usize> for Tile: tile[x][y]
TileAt(tile, x, y) == tile.pixels[x + 1][y + 1]

\* ---------------------------------------------------------- Transformation
Rotate90 == "Rotate90"
Rotate180 == "Rotate180"
Rotate270 == "Rotate270"
FlipHorizontally == "FlipHorizontally"
FlipVertically == "FlipVertically"

Transformation == {Rotate90, Rotate180, Rotate270, FlipHorizontally, FlipVertically}

\* Transformation::transform
transform(self, x, y, length) ==
    CASE self = Rotate90 -> <<y, length - x - 1>>
      [] self = Rotate180 -> <<length - x - 1, length - y - 1>>
      [] self = Rotate270 -> <<length - y - 1, length - x - 1>>
      [] self = FlipHorizontally -> <<x, length - y - 1>>
      [] self = FlipVertically -> <<length - x - 1, y>>

\* ------------------------------------------------------------ OrientedTile
\* OrientedTile::edge_length
edge_length(self) == Len(self.tile.pixels)

\* OrientedTile::translate: left-to-right fold of the transformation list
RECURSIVE foldTransform(_, _, _, _)
foldTransform(ts, k, previous, length) ==
    IF k > Len(ts) THEN previous
    ELSE foldTransform(ts, k + 1, transform(ts[k], previous[1], previous[2], length), length)

translate(self, x, y) == foldTransform(self.transformations, 1, <<x, y>>, edge_length(self))

\* OrientedTile::item_at
item_at(self, x, y) ==
    LET coordinates == translate(self, x, y)
    IN TileAt(self.tile, coordinates[1], coordinates[2])

\* OrientedTile::pixels
pixels(self) ==
    [i \in 1..edge_length(self) |->
        [j \in 1..edge_length(self) |-> item_at(self, i - 1, j - 1)]]

\* OrientedTile::left_border etc.: the sequence the iterator yields
left_border(self) == [i \in 1..edge_length(self) |-> item_at(self, i - 1, 0)]

right_border(self) ==
    LET last_index == edge_length(self) - 1
    IN [i \in 1..edge_length(self) |-> item_at(self, i - 1, last_index)]

top_border(self) == [j \in 1..edge_length(self) |-> item_at(self, 0, j - 1)]

bottom_border(self) ==
    LET last_index == edge_length(self) - 1
    IN [j \in 1..edge_length(self) |-> item_at(self, last_index, j - 1)]

\* The eagerly stored grids built by the five constructors.
flipHPixels(p) == [i \in 1..Len(p) |-> [j \in 1..Len(p[i]) |-> p[i][Len(p[i]) + 1 - j]]]
flipVPixels(p) == [i \in 1..Len(p) |-> p[Len(p) + 1 - i]]
rot90Pixels(p) == [c \in 1..Len(p) |-> [k \in 1..Len(p) |-> p[Len(p) + 1 - k][c]]]
rot180Pixels(p) == [i \in 1..Len(p) |-> [j \in 1..Len(p) |-> p[Len(p) + 1 - i][Len(p) + 1 - j]]]
rot270Pixels(p) == [i \in 1..Len(p) |-> [r \in 1..Len(p) |-> p[r][Len(p) + 1 - i]]]

\* OrientedTile::flip_horizontally
flip_horizontally(self) ==
    [self EXCEPT !.pixels = flipHPixels(self.pixels),
                 !.transformations = Append(self.transformations, FlipHorizontally)]

\* OrientedTile::flip_vertically
flip_vertically(self) ==
    [self EXCEPT !.pixels = flipVPixels(self.pixels),
                 !.transformations = Append(self.transformations, FlipVertically)]

\* OrientedTile::rotate90
rotate90(self) ==
    [self EXCEPT !.pixels = rot90Pixels(self.pixels),
                 !.transformations = Append(self.transformations, Rotate90)]

\* OrientedTile::rotate180
rotate180(self) ==
    [self EXCEPT !.pixels = rot180Pixels(self.pixels),
                 !.transformations = Append(self.transformations, Rotate180)]

\* OrientedTile::rotate270
rotate270(self) ==
    [self EXCEPT !.pixels = rot270Pixels(self.pixels),
                 !.transformations = Append(self.transformations, Rotate270)]

\* Tile::permutations
permutations(self) ==
    LET original == [id |-> self.id, pixels |-> self.pixels, tile |-> self,
                     transformations |-> <<>>]
        r90 == rotate90(original)
    IN << flip_horizontally(original),
          flip_vertically(original),
          rotate180(original),
          rotate270(original),
          flip_horizontally(r90),
          flip_vertically(r90),
          r90,
          original >>

\* OrientedTile::edges_match.  x and y are the sequences the two iterators
\* yield; i and j count the elements already taken from each.  The loop
\* header takes one element from BOTH iterators before it tests them.
RECURSIVE edgesLoop(_, _, _, _)
edgesLoop(x, y, i, j) ==
    LET xi == IF i < Len(x) THEN i + 1 ELSE i
        yj == IF j < Len(y) THEN j + 1 ELSE j
    IN IF i < Len(x) /\ j < Len(y)
       THEN IF x[i + 1] # y[j + 1] THEN FALSE ELSE edgesLoop(x, y, xi, yj)
       ELSE xi >= Len(x) /\ yj >= Len(y)

edges_match(x, y) == edgesLoop(x, y, 0, 0)

\* OrientedTile::fits_to_left_of
fits_to_left_of(self, right_candidate) ==
    edges_match(left_border(right_candidate), right_border(self))

\* OrientedTile::fits_above
fits_above(self, bottom_candidate) ==
    edges_match(top_border(bottom_candidate), bottom_border(self))

\* -------------------------------------------------------------- the search
\* tile_above
tile_above(arrangement, index, edge) ==
    IF index < edge THEN <<>>
    ELSE IF index - edge < Len(arrangement) THEN <<arrangement[index - edge + 1]>> ELSE <<>>

\* tile_to_left
tile_to_left(arrangement, index, edge) ==
    IF index % edge = 0 THEN <<>>
    ELSE IF index - 1 < Len(arrangement) THEN <<arrangement[index - 1 + 1]>> ELSE <<>>

\* The loop of fits over candidate.permutations(): the first orientation,
\* from position k on, that fits both neighbours, as <<orientation>>;
\* <<>> is None.
RECURSIVE firstFit(_, _, _, _)
firstFit(above, left, orientations, k) ==
    IF k > Len(orientations) THEN <<>>
    ELSE LET orientation == orientations[k]
             top_fits == above = <<>> \/ fits_above(above[1], orientation)
             left_fits == left = <<>> \/ fits_to_left_of(left[1], orientation)
         IN IF top_fits /\ left_fits THEN <<orientation>>
            ELSE firstFit(above, left, orientations, k + 1)

\* fits
fits(arrangement, candidate, edge) ==
    LET new_index == Len(arrangement)
    IN firstFit(tile_above(arrangement, new_index, edge),
                tile_to_left(arrangement, new_index, edge),
                permutations(candidate), 1)

\* A removal that always drops the first remaining tile, whatever i is.
without_DropsFirst(remaining_tiles, i) == Tail(remaining_tiles)

\* A removal that removes nothing: the callee gets the caller's whole list.
without_KeepsAll(remaining_tiles, i) == remaining_tiles

\* remaining_tiles without its element at (1-based) position i:
\* left = split_at(i).0, right = split_at(i + 1).1, remaining = left ++ right
without(remaining_tiles, i) ==
    SubSeq(remaining_tiles, 1, i - 1) \o SubSeq(remaining_tiles, i + 1, Len(remaining_tiles))

\* (tiles.len() as f32).sqrt() as usize
RECURSIVE sqrtFrom(_, _)
sqrtFrom(n, r) == IF (r + 1) * (r + 1) > n THEN r ELSE sqrtFrom(n, r + 1)
isqrt(n) == sqrtFrom(n, 0)

\* ------------------------------------------------------------------- state
VARIABLES
    tiles,    \* the Vec<Tile> read by get_input
    pc,       \* "input", "run" (the top frame executes), "ret" (a call has
              \* just returned into the top frame), "done"
    stack,    \* the nested calls of get_valid_arrangements, outermost first
    ret,      \* the value the last finished call returned
    result,   \* possible_arrangements, once the outermost call has returned
    tests,    \* how many candidate placements the search has tried so far
    perms,    \* tile.permutations() of every tile of tiles, once computed
    probe,    \* two oriented tiles and what fits_to_left_of / fits_above said
    coord,    \* a coordinate, the transformations applied to it, where it is now
    compose,  \* tests::part2 from the arrangement to combined_tile
    scan,     \* tests::part2 from combined_tile to the roughness
    answer    \* tests::part1 from possible_arrangements to the printed result

searchVars == <<pc, stack, ret, result, tests>>
laterVars == <<compose, scan, answer>>
vars == <<tiles, pc, stack, ret, result, tests, perms, probe, coord, compose, scan, answer>>

\* The grids the search inputs are drawn from: one of edge length 2 and three
\* of edge length 3.
SearchGrids ==
    { << <<"#", ".">>, <<".", ".">> >>,
      << <<".", ".", "#">>, <<".", ".", ".">>, <<".", ".", "#">> >>,
      << <<".", ".", ".">>, <<"#", ".", ".">>, <<".", "#", ".">> >>,
      << <<".", ".", ".">>, <<"#", ".", ".">>, <<"#", ".", ".">> >> }

\* A tile's id stands for the tile's identity (the search holds &Tile).
TileLists(n) == { [k \in 1..n |-> [id |-> k, pixels |-> g[k]]] : g \in [1..n -> SearchGrids] }

\* One activation of get_valid_arrangements.  i is the index of the loop
\* over remaining_tiles (1-based), o the position in candidate.permutations()
\* of the top-left loop, prefixes the accumulator of the lower loop.
Frame(partial_arrangement, remaining_tiles, edge) ==
    [partial_arrangement |-> partial_arrangement,
     remaining_tiles |-> remaining_tiles,
     edge_length |-> edge,
     i |-> 1, o |-> 1, prefixes |-> <<>>]

Top == stack[Len(stack)]
Caller == SubSeq(stack, 1, Len(stack) - 1)

SearchInit ==
    /\ \E n \in 0..MaxTiles : tiles \in TileLists(n)
    /\ pc = "input"
    /\ stack = <<>>
    /\ ret = <<>>
    /\ result = <<>>
    /\ tests = 0
    /\ answer = <<>>
    /\ perms = <<>>
    /\ probe = <<>>
    /\ coord = <<>>
    /\ compose = <<>>
    /\ scan = <<>>

\* tests::part1: the outermost call, with an empty partial arrangement
Start ==
    /\ pc = "input"
    /\ stack' = <<Frame(<<>>, tiles, isqrt(Len(tiles)))>>
    /\ pc' = "run"
    /\ UNCHANGED <<tiles, ret, result, tests, perms, probe, coord, laterVars>>

\* The top frame returns value: back to its caller, or to part1.
Return(value) ==
    /\ ret' = value
    /\ stack' = Caller
    /\ IF Len(stack) = 1
       THEN pc' = "done" /\ result' = value
       ELSE pc' = "ret" /\ result' = result

\* if remaining_tiles.is_empty() { return vec![partial_arrangement.to_vec()] }
ReturnComplete ==
    /\ pc = "run"
    /\ Top.remaining_tiles = <<>>
    /\ Return(<<Top.partial_arrangement>>)
    /\ UNCHANGED <<tiles, tests, perms, probe, coord, laterVars>>

\* The top-left loop: the next candidate and orientation, and the recursive call.
TopLeftCall ==
    /\ pc = "run"
    /\ Top.remaining_tiles # <<>>
    /\ Top.partial_arrangement = <<>>
    /\ Top.i <= Len(Top.remaining_tiles)
    /\ LET candidate == Top.remaining_tiles[Top.i]
           orientation == permutations(candidate)[Top.o]
           partial == <<orientation>>
           remaining == without(Top.remaining_tiles, Top.i)
       IN stack' = Append(stack, Frame(partial, remaining, Top.edge_length))
    /\ tests' = tests + 1
    /\ UNCHANGED <<tiles, pc, ret, result, perms, probe, coord, laterVars>>

\* A top-left loop that goes on to the next orientation whatever the
\* recursive call returned.
TopLeftResume_KeepsSearching ==
    /\ pc = "ret"
    /\ Top.partial_arrangement = <<>>
    /\ stack' = [stack EXCEPT ![Len(stack)] =
                    IF Top.o < Len(permutations(Top.remaining_tiles[Top.i]))
                    THEN [Top EXCEPT !.o = Top.o + 1]
                    ELSE [Top EXCEPT !.i = Top.i + 1, !.o = 1]]
    /\ pc' = "run"
    /\ UNCHANGED <<tiles, ret, result, tests, perms, probe, coord, laterVars>>

\* The recursive call of the top-left loop has returned.
TopLeftResume ==
    /\ pc = "ret"
    /\ Top.partial_arrangement = <<>>
    /\ IF ret # <<>>
       THEN Return(ret)
       ELSE /\ stack' = [stack EXCEPT ![Len(stack)] =
                           IF Top.o < Len(permutations(Top.remaining_tiles[Top.i]))
                           THEN [Top EXCEPT !.o = Top.o + 1]
                           ELSE [Top EXCEPT !.i = Top.i + 1, !.o = 1]]
            /\ pc' = "run"
            /\ UNCHANGED <<ret, result>>
    /\ UNCHANGED <<tiles, tests, perms, probe, coord, laterVars>>

\* The top-left loop is over: return vec![]
TopLeftExhausted ==
    /\ pc = "run"
    /\ Top.remaining_tiles # <<>>
    /\ Top.partial_arrangement = <<>>
    /\ Top.i > Len(Top.remaining_tiles)
    /\ Return(<<>>)
    /\ UNCHANGED <<tiles, tests, perms, probe, coord, laterVars>>

\* The lower loop: the next candidate fits in some orientation; recursive call.
SuffixCall ==
    /\ pc = "run"
    /\ Top.remaining_tiles # <<>>
    /\ Top.partial_arrangement # <<>>
    /\ Top.i <= Len(Top.remaining_tiles)
    /\ LET candidate == fits(Top.partial_arrangement, Top.remaining_tiles[Top.i],
                             Top.edge_length)
       IN /\ candidate # <<>>
          /\ stack' = Append(stack, Frame(Append(Top.partial_arrangement, candidate[1]),
                                          without(Top.remaining_tiles, Top.i),
                                          Top.edge_length))
    /\ tests' = tests + 1
    /\ UNCHANGED <<tiles, pc, ret, result, perms, probe, coord, laterVars>>

\* The lower loop: the next candidate fits in no orientation.
SuffixSkip ==
    /\ pc = "run"
    /\ Top.remaining_tiles # <<>>
    /\ Top.partial_arrangement # <<>>
    /\ Top.i <= Len(Top.remaining_tiles)
    /\ fits(Top.partial_arrangement, Top.remaining_tiles[Top.i], Top.edge_length) = <<>>
    /\ stack' = [stack EXCEPT ![Len(stack)].i = Top.i + 1]
    /\ tests' = tests + 1
    /\ UNCHANGED <<tiles, pc, ret, result, perms, probe, coord, laterVars>>

\* A lower loop whose callee worked on the caller's own list: on return the
\* candidate is gone from the caller's remaining_tiles.
SuffixResume_SharesRemaining ==
    /\ pc = "ret"
    /\ Top.partial_arrangement # <<>>
    /\ stack' = [stack EXCEPT ![Len(stack)] =
                    [Top EXCEPT !.prefixes = Top.prefixes \o ret,
                                !.remaining_tiles = without(Top.remaining_tiles, Top.i)]]
    /\ pc' = "run"
    /\ UNCHANGED <<tiles, ret, result, tests, perms, probe, coord, laterVars>>

\* The recursive call of the lower loop has returned: prefixes.extend(...)
SuffixResume ==
    /\ pc = "ret"
    /\ Top.partial_arrangement # <<>>
    /\ stack' = [stack EXCEPT ![Len(stack)] =
                    [Top EXCEPT !.prefixes = Top.prefixes \o ret, !.i = Top.i + 1]]
    /\ pc' = "run"
    /\ UNCHANGED <<tiles, ret, result, tests, perms, probe, coord, laterVars>>

\* The lower loop is over: return prefixes
SuffixExhausted ==
    /\ pc = "run"
    /\ Top.remaining_tiles # <<>>
    /\ Top.partial_arrangement # <<>>
    /\ Top.i > Len(Top.remaining_tiles)
    /\ Return(Top.prefixes)
    /\ UNCHANGED <<tiles, tests, perms, probe, coord, laterVars>>

SearchNext ==
    \/ Start
    \/ ReturnComplete
    \/ TopLeftCall
    \/ TopLeftResume
    \/ TopLeftExhausted
    \/ SuffixCall
    \/ SuffixSkip
    \/ SuffixResume
    \/ SuffixExhausted

Spec == SearchInit /\ [][SearchNext]_vars

\* ------------------------------------------- orientations and border matching
\* Every square grid of edge length L over the alphabet.
Grids(L) == [1..L -> [1..L -> Alphabet]]

AsTiles(grids) == [k \in 1..Len(grids) |-> [id |-> k, pixels |-> grids[k]]]

\* One tile of edge length up to MaxL (0: a tile without rows, which
\* get_input builds from a header line followed by a blank line), or two
\* tiles of edge lengths up to MaxPairL (the two need not have the same edge
\* length).
TileInit ==
    /\ \/ \E L \in 0..MaxL : \E g \in Grids(L) : tiles = AsTiles(<<g>>)
       \/ \E L1 \in 1..MaxPairL, L2 \in 1..MaxPairL :
            \E g1 \in Grids(L1), g2 \in Grids(L2) : tiles = AsTiles(<<g1, g2>>)
    /\ pc = "input"
    /\ stack = <<>>
    /\ ret = <<>>
    /\ result = <<>>
    /\ tests = 0
    /\ answer = <<>>
    /\ perms = <<>>
    /\ probe = <<>>
    /\ coord = <<>>
    /\ compose = <<>>
    /\ scan = <<>>

\* candidate.permutations(), for every tile read
Permute ==
    /\ perms = <<>>
    /\ perms' = [k \in 1..Len(tiles) |-> permutations(tiles[k])]
    /\ UNCHANGED <<tiles, searchVars, probe, coord, laterVars>>

\* a.fits_to_left_of(&b) and a.fits_above(&b) for an orientation a of the
\* first tile and an orientation b of the second
Probe ==
    /\ Len(perms) = 2
    /\ probe = <<>>
    /\ \E i \in 1..Len(perms[1]), j \in 1..Len(perms[2]) :
         LET a == perms[1][i]
             b == perms[2][j]
         IN probe' = [a |-> a, b |-> b,
                      fits_to_left_of |-> fits_to_left_of(a, b),
                      fits_above |-> fits_above(a, b)]
    /\ UNCHANGED <<tiles, searchVars, perms, coord, laterVars>>

TileNext == Permute \/ Probe

SpecTile == TileInit /\ [][TileNext]_vars

\* ------------------------------------------------------ coordinate transforms
CoordInit ==
    /\ \E length \in 1..MaxLength : \E x \in 0..(length - 1), y \in 0..(length - 1) :
         coord = [length |-> length, origin |-> <<x, y>>, at |-> <<x, y>>, applied |-> <<>>]
    /\ tiles = <<>>
    /\ pc = "input"
    /\ stack = <<>>
    /\ ret = <<>>
    /\ result = <<>>
    /\ tests = 0
    /\ answer = <<>>
    /\ perms = <<>>
    /\ probe = <<>>
    /\ compose = <<>>
    /\ scan = <<>>

\* transformation.transform(previous.0, previous.1, length)
Apply ==
    /\ Len(coord.applied) < MaxApplied
    /\ \E t \in Transformation :
         coord' = [coord EXCEPT !.at = transform(t, coord.at[1], coord.at[2], coord.length),
                                !.applied = Append(coord.applied, t)]
    /\ UNCHANGED <<tiles, searchVars, perms, probe, laterVars>>

CoordNext == Apply

SpecCoord == CoordInit /\ [][CoordNext]_vars

\* ------------------------------------------------------------------ claims
\* The eight symmetries of a square grid g (the dihedral group of order 8):
\* identity, the three rotations, the two flips and the two diagonal
\* reflections, each as the grid it produces.
Dihedral(g) ==
    LET L == Len(g)
        Grid(f(_, _)) == [i \in 1..L |-> [j \in 1..L |-> f(i, j)]]
        id(i, j) == g[i][j]
        r90(i, j) == g[L + 1 - j][i]
        r180(i, j) == g[L + 1 - i][L + 1 - j]
        r270(i, j) == g[j][L + 1 - i]
        fh(i, j) == g[i][L + 1 - j]
        fv(i, j) == g[L + 1 - i][j]
        tr(i, j) == g[j][i]
        atr(i, j) == g[L + 1 - j][L + 1 - i]
    IN {Grid(id), Grid(r90), Grid(r180), Grid(r270), Grid(fh), Grid(fv), Grid(tr), Grid(atr)}

\* The grids of a list of oriented tiles, as OrientedTile::pixels computes them.
PixelGrids(orientations) == {pixels(orientations[k]) : k \in 1..Len(orientations)}

\* C1: permutations returns exactly 8 oriented tiles whose pixel grids (as
\* pixels() computes them) are pairwise distinct.  Stated for the tiles that
\* have 8 distinct orientations at all (no symmetry of the square maps the
\* tile to itself); for the others no 8 grids can be distinct.
C1_EightDistinctGrids ==
    \A k \in 1..Len(perms) :
        Cardinality(Dihedral(tiles[k].pixels)) = 8 =>
            /\ Len(perms[k]) = 8
            /\ Cardinality(PixelGrids(perms[k])) = 8

\* The algebraic inverse of a transformation.
Inverse(t) ==
    CASE t = Rotate90 -> Rotate270
      [] t = Rotate270 -> Rotate90
      [] OTHER -> t

\* C2: applying a transformation and then the transform of its algebraic
\* inverse returns the original coordinate.
C2_RoundTrip ==
    (Len(coord.applied) = 2 /\ coord.applied[2] = Inverse(coord.applied[1]))
        => coord.at = coord.origin

\* C9: a.fits_to_left_of(b) is true iff a's right border equals b's left
\* border element by element, a.fits_above(b) is true iff a's bottom border
\* equals b's top border element by element, and edges_match gives the same
\* answer whichever border is passed first.
C9_FitsIffBordersEqual ==
    probe # <<>> =>
        /\ probe.fits_to_left_of <=> (right_border(probe.a) = left_border(probe.b))
        /\ probe.fits_above <=> (bottom_border(probe.a) = top_border(probe.b))
        /\ edges_match(left_border(probe.b), right_border(probe.a))
             = edges_match(right_border(probe.a), left_border(probe.b))
        /\ edges_match(top_border(probe.b), bottom_border(probe.a))
             = edges_match(bottom_border(probe.a), top_border(probe.b))

\* C9 on two tiles of one edge length: there the claim holds.
C9_SameEdgeLength ==
    (probe # <<>> /\ edge_length(probe.a) = edge_length(probe.b)) =>
        /\ probe.fits_to_left_of <=> (right_border(probe.a) = left_border(probe.b))
        /\ probe.fits_above <=> (bottom_border(probe.a) = top_border(probe.b))

\* ------------------------------------------------------- claims on the search
N == isqrt(Len(tiles))
IsSquareCount == N * N = Len(tiles)
Done == pc = "done"

\* The borders of a grid, read off the grid itself.
GridLeft(g) == [i \in 1..Len(g) |-> g[i][1]]
GridRight(g) == [i \in 1..Len(g) |-> g[i][Len(g[i])]]
GridTop(g) == g[1]
GridBottom(g) == g[Len(g)]

\* The adjacency constraints of the grid on the tile at 0-based position k of
\* an arrangement of oriented tiles.
FitsAt(arrangement, k) ==
    /\ (k % N # 0) =>
          /\ fits_to_left_of(arrangement[k], arrangement[k + 1])
          /\ right_border(arrangement[k]) = left_border(arrangement[k + 1])
    /\ (k >= N) =>
          /\ fits_above(arrangement[k - N + 1], arrangement[k + 1])
          /\ bottom_border(arrangement[k - N + 1]) = top_border(arrangement[k + 1])

\* C3: every arrangement returned for T = N*N tiles has length T, and at
\* every position k the tile at k-1 fits to the left (right border equals
\* left border) when k mod N # 0 and the tile at k-N fits above (bottom
\* border equals top border) when k >= N.
C3_ReturnedArrangementsFit ==
    (Done /\ IsSquareCount) =>
        \A a \in 1..Len(result) :
            /\ Len(result[a]) = Len(tiles)
            /\ \A k \in 0..(Len(result[a]) - 1) : FitsAt(result[a], k)

\* C3 on tile sets of one edge length: there the claim holds.
OneEdgeLength == \A j, k \in 1..Len(tiles) : Len(tiles[j].pixels) = Len(tiles[k].pixels)
C3_OneEdgeLength == OneEdgeLength => C3_ReturnedArrangementsFit

\* A puzzle instance: a square number of tiles, all of one edge length.
WellFormed == IsSquareCount /\ OneEdgeLength

\* Whether the grids placed so far (row-major) can be extended to a full grid
\* by the tiles of rest, each in one of its 8 dihedral orientations, with
\* equal borders between neighbours.
RECURSIVE CanComplete(_, _)
CanComplete(placed, rest) ==
    IF rest = {} THEN TRUE
    ELSE LET k == Len(placed)
         IN \E t \in rest : \E g \in Dihedral(tiles[t].pixels) :
              /\ (k % N # 0) => GridRight(placed[k]) = GridLeft(g)
              /\ (k >= N) => GridBottom(placed[k - N + 1]) = GridTop(g)
              /\ CanComplete(Append(placed, g), rest \ {t})

\* C4: whenever some assignment of all T = N*N tiles to the grid, each in one
\* of its 8 dihedral orientations, satisfies all border constraints, the
\* search returns a non-empty result.  Stated on puzzle instances.
C4_FindsAnArrangementThatExists ==
    (Done /\ WellFormed /\ result = <<>>) => ~CanComplete(<<>>, 1..Len(tiles))

\* The tiles (by identity) of a list of oriented tiles and of a list of tiles.
ArrangedIds(arrangement) == [k \in 1..Len(arrangement) |-> arrangement[k].tile.id]
TileIds(list) == [k \in 1..Len(list) |-> list[k].id]
IsPermutationOfInput(ids) ==
    /\ Len(ids) = Len(tiles)
    /\ \A t \in 1..Len(tiles) : Cardinality({k \in 1..Len(ids) : ids[k] = t}) = 1

\* C5: at every recursive call the tiles of the partial arrangement and the
\* remaining tiles are disjoint and together exactly the input tiles, and in
\* every arrangement returned each input tile occurs at exactly one position.
C5_EveryTileOnce ==
    /\ \A d \in 1..Len(stack) :
          /\ IsPermutationOfInput(ArrangedIds(stack[d].partial_arrangement)
                                    \o TileIds(stack[d].remaining_tiles))
          /\ \A k \in 1..Len(stack[d].partial_arrangement) :
                stack[d].partial_arrangement[k].tile
                    = tiles[stack[d].partial_arrangement[k].tile.id]
          /\ \A k \in 1..Len(stack[d].remaining_tiles) :
                stack[d].remaining_tiles[k] = tiles[stack[d].remaining_tiles[k].id]
    /\ \A a \in 1..Len(ret) : IsPermutationOfInput(ArrangedIds(ret[a]))
    /\ \A a \in 1..Len(result) : IsPermutationOfInput(ArrangedIds(result[a]))

\* C5's case: a search over four tiles has returned arrangements.
C5_Witness == Done /\ Len(tiles) = 4 /\ result # <<>>

\* C6: when no complete arrangement exists the search reports a failure: what
\* it returns is neither an empty result nor a partial arrangement.  Stated
\* on puzzle instances.
C6_NeverAnEmptyResult ==
    (Done /\ WellFormed /\ ~CanComplete(<<>>, 1..Len(tiles))) =>
        /\ result # <<>>
        /\ \A a \in 1..Len(result) : Len(result[a]) = Len(tiles)

\* A complete arrangement has been produced by some call: it is the value
\* just returned, or it sits in the prefixes of a call still running.
Found == ret # <<>> \/ \E d \in 1..Len(stack) : stack[d].prefixes # <<>>

Assignment(arrangement) ==
    [k \in 1..Len(arrangement) |->
        [id |-> arrangement[k].tile.id, grid |-> pixels(arrangement[k])]]

\* Every way to extend a partial arrangement to a full one by the remaining
\* tiles, each in any orientation of permutations() that fits its neighbours.
RECURSIVE Completions(_, _, _)
Completions(partial, remaining, edge) ==
    IF remaining = <<>> THEN {Assignment(partial)}
    ELSE UNION { Completions(Append(partial, permutations(remaining[i])[o]),
                             without(remaining, i), edge) :
                 <<i, o>> \in { <<i, o>> \in (1..Len(remaining)) \X (1..8) :
                     LET candidate == permutations(remaining[i])[o]
                         above == tile_above(partial, Len(partial), edge)
                         left == tile_to_left(partial, Len(partial), edge)
                     IN /\ above = <<>> \/ fits_above(above[1], candidate)
                        /\ left = <<>> \/ fits_to_left_of(left[1], candidate) } }

\* C8: a call given a valid partial arrangement returns every assignment of
\* the remaining tiles, each in any of its orientations, that completes the
\* grid with matching borders.  Stated on puzzle instances, where the lower
\* loop is about to return its prefixes.
C8_ReturnsAllArrangements ==
    (/\ pc = "run"
     /\ WellFormed
     /\ Top.partial_arrangement # <<>>
     /\ Top.remaining_tiles # <<>>
     /\ Top.i > Len(Top.remaining_tiles))
    => \A c \in Completions(Top.partial_arrangement, Top.remaining_tiles, Top.edge_length) :
          \E a \in 1..Len(Top.prefixes) : Assignment(Top.prefixes[a]) = c

\* C10: on a tile set whose size is not a perfect square, or whose tiles do
\* not all have the same edge length, no placement is ever attempted and no
\* arrangement is returned.
C10_MalformedInputIsNotSearched ==
    (~IsSquareCount \/ ~OneEdgeLength) => (tests = 0 /\ result = <<>>)

\* --------------------------------------------------------------- compositor
\* How many tiles the arrangement has on an edge, and the tiles' edge length.
MaxComposeN == 2
MaxComposeL == 4
\* How far the marked cells move from one tile of the arrangement to the next.
MaxStride == 1

\* What an operation that panicked leaves behind in place of a Tile.
NoTile == [id |-> 0, pixels |-> <<>>]

\* Vec::remove(index), index counted from 0
remove(v, index) == SubSeq(v, 1, index) \o SubSeq(v, index + 2, Len(v))

cropRow_KeepsLastColumn(row) == remove(row, 0)

\* row.remove(row.len() - 1); row.remove(0); row
cropRow(row) ==
    remove(remove(row, Len(row) - 1), 0)

\* Tile::crop_borders.  It panics where a remove has nothing to remove: on
\* an empty vector len() - 1 overflows (a panic in a debug build; a release
\* build wraps and the remove is out of range), on a vector of one element
\* the second remove(0) is out of range.
crop_borders(self) ==
    IF Len(self.pixels) < 2
    THEN [panic |-> TRUE, tile |-> NoTile]
    ELSE LET wide_rows == remove(remove(self.pixels, Len(self.pixels) - 1), 0)
         IN IF \E r \in 1..Len(wide_rows) : Len(wide_rows[r]) < 2
            THEN [panic |-> TRUE, tile |-> NoTile]
            ELSE [panic |-> FALSE,
                  tile |-> [id |-> self.id,
                            pixels |-> [r \in 1..Len(wide_rows) |-> cropRow(wide_rows[r])]]]

\* combine, the loop over the pixels of one row of one tile: a row is pushed
\* when column_id is 0, and grid[row_id] panics when there is no such row.
RECURSIVE combinePixels(_, _, _, _, _)
combinePixels(grid, cells, original_column, row_id, column_offset) ==
    IF grid.panic \/ original_column >= Len(cells)
    THEN grid
    ELSE LET column_id == original_column + column_offset
             pushed == IF column_id = 0 THEN Append(grid.rows, <<>>) ELSE grid.rows
         IN IF row_id >= Len(pushed)
            THEN [panic |-> TRUE, rows |-> pushed]
            ELSE combinePixels(
                   [panic |-> FALSE,
                    rows |-> [pushed EXCEPT ![row_id + 1] = Append(@, cells[original_column + 1])]],
                   cells, original_column + 1, row_id, column_offset)

\* combine, the loop over the rows of one tile
RECURSIVE combineRows(_, _, _, _, _)
combineRows(grid, tile, original_row, row_offset, column_offset) ==
    IF grid.panic \/ original_row >= Len(tile.pixels)
    THEN grid
    ELSE combineRows(
           combinePixels(grid, tile.pixels[original_row + 1], 0,
                         original_row + row_offset, column_offset),
           tile, original_row + 1, row_offset, column_offset)

\* combine, the loop over the arrangement; index / tiles_on_edge panics when
\* tiles_on_edge is 0
RECURSIVE combineTiles(_, _, _, _)
combineTiles(grid, arrangement, index, tiles_on_edge) ==
    IF grid.panic \/ index >= Len(arrangement)
    THEN grid
    ELSE IF tiles_on_edge = 0
    THEN [panic |-> TRUE, rows |-> grid.rows]
    ELSE LET tile == arrangement[index + 1]
             tile_row == index \div tiles_on_edge
             tile_column == index % tiles_on_edge
         IN combineTiles(
              combineRows(grid, tile, 0,
                          Len(tile.pixels) * tile_row, Len(tile.pixels) * tile_column),
              arrangement, index + 1, tiles_on_edge)

combine_LastTileFirst(arrangement, tiles_on_edge, edge_size) ==
    LET reversed == [k \in 1..Len(arrangement) |-> arrangement[Len(arrangement) + 1 - k]]
        grid == combineTiles([panic |-> FALSE, rows |-> <<>>], reversed, 0, tiles_on_edge)
    IN [panic |-> grid.panic,
        tile |-> IF grid.panic THEN NoTile ELSE [id |-> 0, pixels |-> grid.rows]]

\* edge_size only sizes the vectors' capacity.
combine(arrangement, tiles_on_edge, edge_size) ==
    LET grid == combineTiles([panic |-> FALSE, rows |-> <<>>], arrangement, 0, tiles_on_edge)
    IN [panic |-> grid.panic,
        tile |-> IF grid.panic THEN NoTile ELSE [id |-> 0, pixels |-> grid.rows]]

\* The grid of edge length L whose foreground cells are the cells numbered
\* (row-major, from 0) in cells.
Marked(L, cells) ==
    [r \in 1..L |-> [c \in 1..L |-> IF ((r - 1) * L + (c - 1)) \in cells THEN "#" ELSE "."]]

\* An arrangement of n * n tiles of edge length L as oriented.tile() yields
\* them: tile t has its foreground at cells a and b, moved on by (t - 1) * s.
Arranged(n, L, a, b, s) ==
    [t \in 1..(n * n) |->
        [id |-> t,
         pixels |-> IF L = 0 THEN <<>>
                    ELSE Marked(L, {(a + (t - 1) * s) % (L * L), (b + (t - 1) * s) % (L * L)})]]

ComposeInit ==
    /\ \E n \in 1..MaxComposeN, L \in 0..MaxComposeL :
         \E a, b \in 0..(IF L = 0 THEN 0 ELSE L * L - 1), s \in 0..MaxStride :
            compose = [tiles_on_edge |-> n,
                       arrangement |-> Arranged(n, L, a, b, s),
                       cropped_tiles |-> <<>>,
                       combined_tile |-> NoTile,
                       stage |-> "crop"]
    /\ tiles = <<>>
    /\ pc = "input"
    /\ stack = <<>>
    /\ ret = <<>>
    /\ result = <<>>
    /\ tests = 0
    /\ answer = <<>>
    /\ perms = <<>>
    /\ probe = <<>>
    /\ coord = <<>>
    /\ scan = <<>>

composeFrame == <<tiles, searchVars, perms, probe, coord, scan, answer>>

\* .map(|tile| tile.crop_borders()), for the next tile of the arrangement
Crop ==
    /\ compose.stage = "crop"
    /\ Len(compose.cropped_tiles) < Len(compose.arrangement)
    /\ LET cropped == crop_borders(compose.arrangement[Len(compose.cropped_tiles) + 1])
       IN compose' = IF cropped.panic
                     THEN [compose EXCEPT !.stage = "panic"]
                     ELSE [compose EXCEPT !.cropped_tiles = Append(@, cropped.tile)]
    /\ UNCHANGED composeFrame

\* let combined_tile = combine(&cropped_tiles, tiles_on_edge, edge_size)
Combine ==
    /\ compose.stage = "crop"
    /\ Len(compose.cropped_tiles) = Len(compose.arrangement)
    /\ LET combined == combine(compose.cropped_tiles, compose.tiles_on_edge,
                               Len(compose.arrangement[1].pixels))
       IN compose' = IF combined.panic
                     THEN [compose EXCEPT !.stage = "panic"]
                     ELSE [compose EXCEPT !.combined_tile = combined.tile, !.stage = "combined"]
    /\ UNCHANGED composeFrame

ComposeNext == Crop \/ Combine

SpecCompose == ComposeInit /\ [][ComposeNext]_vars

\* ------------------------------------------------- claims on the compositor
\* The edge length of the tiles being composed.
ComposeL == Len(compose.arrangement[1].pixels)

\* C11: for a row-major list of N * N cropped tiles, each M x M with
\* M = L - 2, combine returns a grid of N * M rows of N * M cells whose cell
\* (tile_row * M + r, tile_col * M + c) is pixel (r, c) of the cropped tile
\* at index tile_row * N + tile_col.
C11_CombinePlacesEveryTile ==
    compose.stage = "combined" =>
        LET n == compose.tiles_on_edge
            M == ComposeL - 2
            grid == compose.combined_tile.pixels
        IN /\ Len(compose.cropped_tiles) = n * n
           /\ Len(grid) = n * M
           /\ \A row \in 1..Len(grid) : Len(grid[row]) = n * M
           /\ \A tile_row \in 0..(n - 1), tile_col \in 0..(n - 1), r \in 0..(M - 1), c \in 0..(M - 1) :
                grid[tile_row * M + r + 1][tile_col * M + c + 1]
                  = compose.cropped_tiles[tile_row * n + tile_col + 1].pixels[r + 1][c + 1]

\* Four cropped tiles of edge length 2 were combined, and they are not all alike.
C11_Witness ==
    /\ compose.stage = "combined"
    /\ compose.tiles_on_edge = 2
    /\ ComposeL = 4
    /\ compose.cropped_tiles[1].pixels # compose.cropped_tiles[4].pixels
    /\ compose.cropped_tiles[2].pixels # compose.cropped_tiles[3].pixels

\* What crop_borders is to return for a grid of edge length L >= 3.
Interior(p) == [r \in 1..(Len(p) - 2) |-> [c \in 1..(Len(p) - 2) |-> p[r + 1][c + 1]]]

\* C12: for a tile of edge length L >= 3, crop_borders returns the
\* (L - 2) x (L - 2) grid whose cell (r, c) is the original cell
\* (r + 1, c + 1), it does not panic, and the original tile is unchanged.
C12_CropRemovesTheFrame ==
    /\ [](ComposeL >= 3 =>
            /\ compose.stage # "panic"
            /\ \A k \in 1..Len(compose.cropped_tiles) :
                 /\ compose.cropped_tiles[k].pixels = Interior(compose.arrangement[k].pixels)
                 /\ Len(compose.cropped_tiles[k].pixels) = ComposeL - 2
                 /\ \A r \in 1..(ComposeL - 2) :
                      Len(compose.cropped_tiles[k].pixels[r]) = ComposeL - 2)
    /\ [][compose'.arrangement = compose.arrangement]_vars

\* A tile of edge length 4 was cropped; it had foreground both on its frame
\* and inside.
C12_Witness ==
    /\ ComposeL = 4
    /\ Len(compose.cropped_tiles) >= 1
    /\ \E r, c \in 1..2 : compose.cropped_tiles[1].pixels[r][c] = "#"
    /\ \E c \in 1..4 : compose.arrangement[1].pixels[4][c] = "#"

\* C13: cropping a tile of edge length 0, 1 or 2 neither returns a grid nor
\* panics.
C13_SmallTileIsRefused ==
    ComposeL < 3 => (compose.cropped_tiles = <<>> /\ compose.stage # "panic")

\* ------------------------------------------------------------ the motif scan
\* The largest edge length of a composite, and how many sea monsters are
\* drawn into one.
MaxE == 21
MaxMonsters == 2
\* How often highlight_seamonsters is called on one oriented composite.
MaxCalls == 2

\* OrientedTile::SEA_MONSTER
SEA_MONSTER ==
    << <<" ", " ", " ", " ", " ", " ", " ", " ", " ", " ", " ", " ", " ", " ", " ", " ", " ", " ", "#", " ">>,
       <<"#", " ", " ", " ", " ", "#", "#", " ", " ", " ", " ", "#", "#", " ", " ", " ", " ", "#", "#", "#">>,
       <<" ", "#", " ", " ", "#", " ", " ", "#", " ", " ", "#", " ", " ", "#", " ", " ", "#", " ", " ", " ">> >>

window_height == Len(SEA_MONSTER)
window_width == Len(SEA_MONSTER[1])

\* Tile::roughness: the number of '#' pixels
roughness(self) ==
    Cardinality({rc \in (1..Len(self.pixels)) \X (1..Len(self.pixels)) :
                    /\ rc[2] <= Len(self.pixels[rc[1]])
                    /\ self.pixels[rc[1]][rc[2]] = "#"})

\* contains_sea_monster makes its reads in a fixed order: for each pattern
\* row i the image row i + vertical_offset, then the image cell under each
\* '#' of that pattern row, left to right.  The reads are numbered over the
\* window_width + 1 steps of each pattern row.
PatternReads ==
    {k \in 0..(window_height * (window_width + 1) - 1) :
        \/ k % (window_width + 1) = 0
        \/ SEA_MONSTER[(k \div (window_width + 1)) + 1][k % (window_width + 1)] = "#"}

\* Read k either passes, or ends the call: with a panic, when the index is
\* out of range, or with false, when the cell is not '#'.
readOutcome(image, vertical_offset, horizontal_offset, k) ==
    LET i == k \div (window_width + 1)
        j == (k % (window_width + 1)) - 1
    IN IF i + vertical_offset >= Len(image) THEN "panic"
       ELSE IF j < 0 THEN "pass"
       ELSE IF j + horizontal_offset >= Len(image[i + vertical_offset + 1]) THEN "panic"
       ELSE IF image[i + vertical_offset + 1][j + horizontal_offset + 1] # "#" THEN "false"
       ELSE "pass"

\* A test that takes every window it can read for a sea monster.
contains_sea_monster_AnyWindow(image, vertical_offset, horizontal_offset) ==
    IF \E k \in PatternReads :
          readOutcome(image, vertical_offset, horizontal_offset, k) = "panic"
    THEN "panic"
    ELSE "true"

\* contains_sea_monster: what the first read that does not pass makes of it
contains_sea_monster(image, vertical_offset, horizontal_offset) ==
    LET ending == {k \in PatternReads :
                      readOutcome(image, vertical_offset, horizontal_offset, k) # "pass"}
    IN IF ending = {} THEN "true"
       ELSE readOutcome(image, vertical_offset, horizontal_offset,
                        CHOOSE k \in ending : \A m \in ending : k <= m)

\* A highlighting that paints the whole window, not only the pattern.
highlight_seamonster_PaintsTheWindow(image, vertical_offset, horizontal_offset) ==
    [r \in 1..Len(image) |->
        [c \in 1..Len(image[r]) |->
            IF /\ r - 1 - vertical_offset \in 0..(window_height - 1)
               /\ c - 1 - horizontal_offset \in 0..(window_width - 1)
            THEN "0"
            ELSE image[r][c]]]

\* highlight_seamonster: '0' over every '#' of the pattern.  It is called
\* only where contains_sea_monster has read the same cells.
highlight_seamonster(image, vertical_offset, horizontal_offset) ==
    [r \in 1..Len(image) |->
        [c \in 1..Len(image[r]) |->
            IF /\ r - 1 - vertical_offset \in 0..(window_height - 1)
               /\ c - 1 - horizontal_offset \in 0..(window_width - 1)
               /\ SEA_MONSTER[r - vertical_offset][c - horizontal_offset] = "#"
            THEN "0"
            ELSE image[r][c]]]

\* usize is modelled 30 bits wide, the widest power of two the model checker's
\* integers hold twice over; the scan panics long before an index gets near it.
UsizeBits == 30

\* a - b on usize: an overflow panics in a debug build and wraps in a
\* release build.
usize_sub(a, b, build) ==
    IF a >= b THEN [panic |-> FALSE, value |-> a - b]
    ELSE IF build = "debug" THEN [panic |-> TRUE, value |-> 0]
    ELSE [panic |-> FALSE, value |-> (2 ^ UsizeBits) + a - b]

\* highlight_seamonsters, the two loops from anchor (i, j) on.  acc carries
\* sum and the mutable pixels, and for the record the anchors tested so far.
\* With no column to test (horizontal_windows = 0) the outer loop runs empty.
RECURSIVE scanFrom(_, _, _, _, _)
scanFrom(acc, i, j, vertical_windows, horizontal_windows) ==
    IF acc.panic \/ i >= vertical_windows \/ horizontal_windows = 0 THEN acc
    ELSE LET found == contains_sea_monster(acc.pixels, i, j)
             tested == Append(acc.anchors, <<i, j>>)
             next_i == IF j + 1 >= horizontal_windows THEN i + 1 ELSE i
             next_j == IF j + 1 >= horizontal_windows THEN 0 ELSE j + 1
         IN IF found = "panic"
            THEN [acc EXCEPT !.panic = TRUE, !.anchors = tested]
            ELSE scanFrom(
                   IF found = "true"
                   THEN [panic |-> FALSE, sum |-> acc.sum + 1,
                         pixels |-> highlight_seamonster(acc.pixels, i, j),
                         anchors |-> tested]
                   ELSE [acc EXCEPT !.anchors = tested],
                   next_i, next_j, vertical_windows, horizontal_windows)

\* The grid highlight_seamonsters starts from: let mut pixels = self.pixels()
scanned_pixels(self) ==
    pixels(self)

\* OrientedTile::highlight_seamonsters: (sum, tile), or a panic
highlight_seamonsters(self, build) ==
    LET vertical_windows == usize_sub(edge_length(self), window_height, build)
        horizontal_windows == usize_sub(edge_length(self), window_width, build)
    IN IF vertical_windows.panic \/ horizontal_windows.panic
       THEN [panic |-> TRUE, sum |-> 0, tile |-> NoTile, anchors |-> <<>>]
       ELSE LET acc == scanFrom([panic |-> FALSE, sum |-> 0,
                                 pixels |-> scanned_pixels(self), anchors |-> <<>>],
                                0, 0, vertical_windows.value, horizontal_windows.value)
            IN [panic |-> acc.panic,
                sum |-> acc.sum,
                tile |-> IF acc.panic THEN NoTile
                         ELSE [id |-> self.tile.id, pixels |-> acc.pixels],
                anchors |-> acc.anchors]

\* The cells (row, column, from 0) under a '#' of the pattern placed at anchor.
MonsterCells(anchor) ==
    {<<anchor[1] + p[1] - 1, anchor[2] + p[2] - 1>> :
        p \in {q \in (1..window_height) \X (1..window_width) : SEA_MONSTER[q[1]][q[2]] = "#"}}

\* The anchors sea monsters are drawn at: the top left corner, one row
\* below it, the last row and the last column at which the window is inside
\* a grid of edge length E.
DrawnAnchors(E) ==
    IF E < window_width THEN {}
    ELSE {<<0, 0>>, <<1, 0>>, <<E - window_height, 0>>, <<0, E - window_width>>}

\* A picture of edge length E: sea monsters at the anchors in at, and, with
\* noise, one more '#' in the bottom left corner, which no sea monster covers.
Picture(E, at, noise) ==
    LET cells == UNION {MonsterCells(a) : a \in at}
    IN [r \in 1..E |-> [c \in 1..E |->
          IF <<r - 1, c - 1>> \in cells \/ (noise /\ r = E /\ c = 1) THEN "#" ELSE "."]]

\* The edge lengths of the composites: some smaller than the window, and
\* those from the window's width up to MaxE.
ScanEdges ==
    {0, window_height - 1, window_height, window_width - 1} \cup (window_width..MaxE)

\* combined_tile: a picture, turned or flipped in one of the eight ways.
Composites ==
    UNION { UNION { UNION { Dihedral(Picture(E, at, noise)) : noise \in BOOLEAN } :
                at \in {a \in SUBSET DrawnAnchors(E) : Cardinality(a) <= MaxMonsters} } :
            E \in ScanEdges }

\* The builds a composite is scanned in.  The two differ only where a usize
\* subtraction overflows, which takes an edge length below the window's.
Builds(g) ==
    IF Len(g) < window_width THEN {"debug", "release"} ELSE {"debug"}

scanFrame == <<tiles, searchVars, perms, probe, coord, compose, answer>>

\* ---------------------------------------- highlight_seamonsters, call by call
\* highlight_seamonsters borrows self immutably (&'t self): the oriented
\* tile after the call is the one before it.
receiver_after_Marked(self, highlighted) ==
    IF highlighted.panic THEN self
    ELSE [self EXCEPT !.tile = [id |-> self.tile.id, pixels |-> highlighted.tile.pixels]]

receiver_after(self, highlighted) ==
    self

\* One orientation of a composite.
HighlightInit ==
    /\ \E g \in Composites : \E build \in Builds(g) :
         \E k \in 1..8 :
            scan = [build |-> build,
                    permutation |-> permutations([id |-> 0, pixels |-> g])[k],
                    calls |-> <<>>]
    /\ tiles = <<>>
    /\ pc = "input"
    /\ stack = <<>>
    /\ ret = <<>>
    /\ result = <<>>
    /\ tests = 0
    /\ answer = <<>>
    /\ perms = <<>>
    /\ probe = <<>>
    /\ coord = <<>>
    /\ compose = <<>>

\* permutation.highlight_seamonsters(); nothing is called after a panic
Highlight ==
    /\ Len(scan.calls) < MaxCalls
    /\ \A n \in 1..Len(scan.calls) : ~scan.calls[n].panic
    /\ LET highlighted == highlight_seamonsters(scan.permutation, scan.build)
       IN scan' = [scan EXCEPT !.calls = Append(@, highlighted),
                               !.permutation = receiver_after(@, highlighted)]
    /\ UNCHANGED scanFrame

HighlightNext == Highlight

SpecHighlight == HighlightInit /\ [][HighlightNext]_vars

\* ------------------------------------------- tests::part2, the scanning loop
ScanInit ==
    /\ \E g \in Composites : \E build \in Builds(g) :
         scan = [build |-> build,
                 combined_tile |-> [id |-> 0, pixels |-> g],
                 counts |-> <<>>,
                 highlighted |-> NoTile,
                 outcome |-> "scanning",
                 printed |-> <<>>]
    /\ tiles = <<>>
    /\ pc = "input"
    /\ stack = <<>>
    /\ ret = <<>>
    /\ result = <<>>
    /\ tests = 0
    /\ answer = <<>>
    /\ perms = <<>>
    /\ probe = <<>>
    /\ coord = <<>>
    /\ compose = <<>>

ScanPermutation_ScansOn ==
    /\ scan.outcome = "scanning"
    /\ Len(scan.counts) < Len(permutations(scan.combined_tile))
    /\ LET permutation == permutations(scan.combined_tile)[Len(scan.counts) + 1]
           highlighted == highlight_seamonsters(permutation, scan.build)
       IN scan' = IF highlighted.panic
                  THEN [scan EXCEPT !.outcome = "panic"]
                  ELSE [scan EXCEPT !.counts = Append(@, highlighted.sum),
                                    !.highlighted = highlighted.tile,
                                    !.printed = IF highlighted.sum > 0
                                                THEN <<roughness(highlighted.tile)>>
                                                ELSE @]
    /\ UNCHANGED scanFrame

\* One turn of the loop over combined_tile.permutations(): scan the next
\* orientation; if it has sea monsters, print the roughness and return.
ScanPermutation ==
    /\ scan.outcome = "scanning"
    /\ Len(scan.counts) < Len(permutations(scan.combined_tile))
    /\ LET permutation == permutations(scan.combined_tile)[Len(scan.counts) + 1]
           highlighted == highlight_seamonsters(permutation, scan.build)
       IN scan' = IF highlighted.panic
                  THEN [scan EXCEPT !.outcome = "panic"]
                  ELSE IF highlighted.sum > 0
                  THEN [scan EXCEPT !.counts = Append(@, highlighted.sum),
                                    !.highlighted = highlighted.tile,
                                    !.printed = <<roughness(highlighted.tile)>>,
                                    !.outcome = "returned"]
                  ELSE [scan EXCEPT !.counts = Append(@, highlighted.sum),
                                    !.highlighted = highlighted.tile]
    /\ UNCHANGED scanFrame

\* the message of the assert! that ends the loop
NoneFoundMessage == "None of the permutations had sea monsters"

NoneFound_PrintsZero ==
    /\ scan.outcome = "scanning"
    /\ Len(scan.counts) = Len(permutations(scan.combined_tile))
    /\ scan' = [scan EXCEPT !.outcome = "returned", !.printed = <<0>>]
    /\ UNCHANGED scanFrame

\* assert!(false, "None of the permutations had sea monsters")
NoneFound ==
    /\ scan.outcome = "scanning"
    /\ Len(scan.counts) = Len(permutations(scan.combined_tile))
    /\ scan' = [scan EXCEPT !.outcome = NoneFoundMessage]
    /\ UNCHANGED scanFrame

ScanNext == ScanPermutation \/ NoneFound

SpecScan == ScanInit /\ [][ScanNext]_vars

\* --------------------------------------- claims on highlight_seamonsters
\* The cells (row, column, from 0) of grid g that hold ch.
CellsHolding(g, ch) ==
    {rc \in (0..(Len(g) - 1)) \X (0..(Len(g) - 1)) : g[rc[1] + 1][rc[2] + 1] = ch}

\* The anchors at which the window is fully inside a grid of edge length E.
FittingAnchors(E) == (0..(E - window_height)) \X (0..(E - window_width))

\* The pattern is at anchor in grid g: every '#' of it lies on a '#' of g.
MatchesAt(g, anchor) == MonsterCells(anchor) \subseteq CellsHolding(g, "#")

Tested(call) == {call.anchors[n] : n \in 1..Len(call.anchors)}

\* The oriented composite the calls were made on.
Oriented == pixels(scan.permutation)

\* C14: highlight_seamonsters tests every anchor (i, j) at which the window
\* is fully inside the oriented composite: every 0 <= i <= E - 3 and
\* 0 <= j <= E - 20.
C14_EveryFittingAnchorIsTested ==
    \A n \in 1..Len(scan.calls) :
        ~scan.calls[n].panic => FittingAnchors(Len(Oriented)) \subseteq Tested(scan.calls[n])

\* C15: the match count is the number of tested anchors at which the
\* pattern is in the oriented composite as it was before any highlighting.
C15_CountsEveryMatch ==
    \A n \in 1..Len(scan.calls) :
        ~scan.calls[n].panic =>
            scan.calls[n].sum
              = Cardinality({a \in Tested(scan.calls[n]) : MatchesAt(Oriented, a)})

\* C16: the roughness of the returned tile is the number of '#' cells of the
\* oriented composite minus the number of cells under a '#' of the pattern
\* at some anchor where the pattern is in the composite.
C16_RoughnessLeavesOutEveryMatch ==
    \A n \in 1..Len(scan.calls) :
        ~scan.calls[n].panic =>
            roughness(scan.calls[n].tile)
              = Cardinality(CellsHolding(Oriented, "#"))
                - Cardinality(UNION {MonsterCells(a) :
                      a \in {b \in FittingAnchors(Len(Oriented)) : MatchesAt(Oriented, b)}})

MotifOccurs ==
    \E g \in Dihedral(scan.combined_tile.pixels) :
        \E a \in FittingAnchors(Len(g)) : MatchesAt(g, a)

ScanOver == scan.outcome # "scanning"

\* C17: if the pattern is in the composite under one of the eight
\* symmetries, the loop over combined_tile.permutations() comes to an
\* orientation with a nonzero count and does not end with no sea monster
\* found.
C17_FindsTheMotifUnderAnySymmetry ==
    (ScanOver /\ MotifOccurs) => scan.outcome = "returned"

\* C18: the loop scans the orientations in the order of permutations(),
\* stops at the first one whose count is not zero, prints the roughness of
\* that orientation's highlighted tile, and scans no orientation after it.
C18_StopsAtTheFirstOrientationWithAMatch ==
    LET orientations == permutations(scan.combined_tile)
        last == Len(scan.counts)
    IN /\ last <= Len(orientations)
       /\ \A k \in 1..(last - 1) : scan.counts[k] = 0
       /\ last > 0 =>
            LET highlighted == highlight_seamonsters(orientations[last], scan.build)
            IN /\ scan.counts[last] = highlighted.sum
               /\ scan.highlighted = highlighted.tile
               /\ scan.counts[last] > 0 =>
                    /\ scan.outcome = "returned"
                    /\ scan.printed = <<roughness(highlighted.tile)>>
       /\ scan.printed # <<>> => (last > 0 /\ scan.counts[last] > 0)

\* The loop returned at the fourth orientation, [Rotate270]; the sixth,
\* [Rotate90, FlipVertically], which shows the same grid, was not scanned.
C18_Witness ==
    /\ scan.outcome = "returned"
    /\ Len(scan.counts) = 4
    /\ scan.printed # <<0>>
    /\ highlight_seamonsters(permutations(scan.combined_tile)[6], scan.build).sum > 0

\* C19: when every orientation has a count of zero the loop ends in the
\* failure that no sea monster was found and prints no roughness; a printed
\* roughness, 0 included, always comes with a nonzero count.
C19_NoMotifIsAFailure ==
    /\ (ScanOver /\ scan.outcome # "panic" /\ \A k \in 1..Len(scan.counts) : scan.counts[k] = 0)
         => (scan.outcome = NoneFoundMessage /\ scan.printed = <<>>)
    /\ scan.outcome = NoneFoundMessage =>
         /\ Len(scan.counts) = Len(permutations(scan.combined_tile))
         /\ \A k \in 1..Len(scan.counts) : scan.counts[k] = 0
    /\ scan.printed # <<>> => \E k \in 1..Len(scan.counts) : scan.counts[k] > 0

\* A composite of edge length 20 or more without any '#' was scanned in all
\* orientations: its roughness would be 0.
C19_Witness ==
    /\ scan.outcome = NoneFoundMessage
    /\ Len(scan.combined_tile.pixels) >= window_width
    /\ roughness(scan.combined_tile) = 0

\* ------------------------------------------------- claims on oriented tiles
\* Every oriented tile that permutations() has produced.
OrientedTiles == {perms[k][o] : k \in 1..Len(perms), o \in 1..8}

\* let last_index = self.edge_length() - 1, which right_border and
\* bottom_border evaluate on usize before they build their iterator.
last_index(self, build) == usize_sub(edge_length(self), 1, build)

\* The four borders and item_at read the grid pixels() returns.
BordersAreTheEdgesOfPixels(self) ==
    LET L == edge_length(self)
        grid == pixels(self)
    IN /\ Len(top_border(self)) = L
       /\ Len(bottom_border(self)) = L
       /\ Len(left_border(self)) = L
       /\ Len(right_border(self)) = L
       /\ L > 0 =>
            /\ top_border(self) = grid[1]
            /\ bottom_border(self) = grid[L]
            /\ left_border(self) = [i \in 1..L |-> grid[i][1]]
            /\ right_border(self) = [i \in 1..L |-> grid[i][L]]
       /\ \A x, y \in 0..(L - 1) : item_at(self, x, y) = grid[x + 1][y + 1]

\* C23: for every oriented tile, of edge length L, each of top_border,
\* bottom_border, left_border and right_border yields exactly L pixels,
\* which are row 0, row L - 1, column 0 and column L - 1 of the grid pixels()
\* returns, and item_at(x, y) is pixels()[x][y].
C23_BordersAreTheEdgesOfPixels ==
    \A self \in OrientedTiles :
        /\ \A build \in {"debug", "release"} : ~last_index(self, build).panic
        /\ BordersAreTheEdgesOfPixels(self)

\* What holds of C23: the same for the tiles that have a row.
C23_BordersOfTilesWithARow ==
    \A self \in OrientedTiles :
        edge_length(self) > 0 =>
            /\ \A build \in {"debug", "release"} : ~last_index(self, build).panic
            /\ BordersAreTheEdgesOfPixels(self)

\* C27: for every oriented tile of permutations() the stored pixels field
\* is the grid pixels() computes, and its last row is bottom_border().
C27_StoredPixelsAreThePixels ==
    \A self \in OrientedTiles :
        /\ self.pixels = pixels(self)
        /\ self.pixels # <<>> => self.pixels[Len(self.pixels)] = bottom_border(self)

\* C28: edges_match is true only for two sequences of the same length that
\* are equal element by element.
C28_EdgesMatchOnlyOnEqualSequences ==
    probe # <<>> =>
        \A xy \in {<<left_border(probe.b), right_border(probe.a)>>,
                   <<right_border(probe.a), left_border(probe.b)>>,
                   <<top_border(probe.b), bottom_border(probe.a)>>,
                   <<bottom_border(probe.a), top_border(probe.b)>>} :
            edges_match(xy[1], xy[2]) => (Len(xy[1]) = Len(xy[2]) /\ xy[1] = xy[2])

\* ------------------------------------------------ claims on the recursion
\* The orientations of candidate that fit at the next position of arrangement:
\* the condition fits tests on each orientation.
FittingOrientations(arrangement, candidate, edge) ==
    LET above == tile_above(arrangement, Len(arrangement), edge)
        left == tile_to_left(arrangement, Len(arrangement), edge)
        orientations == permutations(candidate)
    IN { orientations[k] : k \in
           { k \in 1..Len(orientations) :
               /\ above = <<>> \/ fits_above(above[1], orientations[k])
               /\ left = <<>> \/ fits_to_left_of(left[1], orientations[k]) } }

\* C22: at every position k > 0 the search recurses on every orientation of
\* every remaining tile that fits; none is skipped because another
\* orientation of the same tile fits too.  The lower loop makes one call per
\* candidate, so while that call is active every fitting orientation of the
\* candidate must show the grid of the orientation the call was made with.
C22_EveryFittingOrientationIsRecursedOn ==
    \A d \in 1..(Len(stack) - 1) :
        stack[d].partial_arrangement # <<>> =>
            LET called == stack[d + 1].partial_arrangement
                placed == called[Len(called)]
            IN \A orientation \in FittingOrientations(stack[d].partial_arrangement,
                                                      stack[d].remaining_tiles[stack[d].i],
                                                      stack[d].edge_length) :
                   pixels(orientation) = pixels(placed)

\* C25: each recursive call works on its own partial arrangement and its own
\* remaining list (the caller's with the candidate appended, respectively
\* removed), and whatever a call does, the partial_arrangement and
\* remaining_tiles of every activation below it stay what they were.
C25_CallsLeaveTheCallerUntouched ==
    /\ [](\A d \in 1..(Len(stack) - 1) :
            LET caller == stack[d]
                callee == stack[d + 1]
                n == Len(caller.partial_arrangement)
            IN /\ Len(callee.partial_arrangement) = n + 1
               /\ SubSeq(callee.partial_arrangement, 1, n) = caller.partial_arrangement
               /\ callee.partial_arrangement[n + 1].tile = caller.remaining_tiles[caller.i]
               /\ callee.remaining_tiles =
                     SubSeq(caller.remaining_tiles, 1, caller.i - 1)
                         \o SubSeq(caller.remaining_tiles, caller.i + 1,
                                   Len(caller.remaining_tiles)))
    /\ [][\A d \in 1..Len(stack) :
            d <= Len(stack') =>
                /\ stack'[d].partial_arrangement = stack[d].partial_arrangement
                /\ stack'[d].remaining_tiles = stack[d].remaining_tiles]_vars

\* A call of the lower loop has returned arrangements and the caller, with
\* tiles still to try, goes on.
C25_Witness ==
    /\ pc = "run"
    /\ Len(stack) >= 2
    /\ Top.prefixes # <<>>
    /\ Top.i > 1
    /\ Top.i <= Len(Top.remaining_tiles)

\* C26: during a search over N*N tiles the depth of nested
\* get_valid_arrangements calls never exceeds the grid edge length N.
C26_DepthAtMostEdgeLength ==
    (stack # <<>> /\ IsSquareCount /\ Len(tiles) > 0) => Len(stack) <= stack[1].edge_length

\* C26, amended: every call below the outermost one has one tile more placed,
\* so the depth never exceeds the number of tiles plus one.
C26_DepthAtMostTilesPlusOne ==
    Len(stack) <= Len(tiles) + 1

\* The search over four tiles at its deepest.
C26_Witness ==
    /\ Len(tiles) = 4
    /\ Len(stack) = 5
    /\ stack[1].edge_length = 2

\* ------------------------------------------------- tests::part1, the corners
\* type Id = u64: a value is held as IdBytes bytes, least significant first.
IdBytes == 8

RECURSIVE limbsOf(_, _)
limbsOf(n, k) == IF k = 0 THEN <<>> ELSE <<n % 256>> \o limbsOf(n \div 256, k - 1)

\* the u64 of a small number
u64(n) == limbsOf(n, IdBytes)

\* Column k (from 0) of the schoolbook product of two byte sequences.
RECURSIVE columnSum(_, _, _, _)
columnSum(a, b, k, i) ==
    IF i > k THEN 0
    ELSE (IF i < Len(a) /\ k - i < Len(b) THEN a[i + 1] * b[k - i + 1] ELSE 0)
         + columnSum(a, b, k, i + 1)

RECURSIVE timesFrom(_, _, _, _)
timesFrom(a, b, k, carry) ==
    IF k = Len(a) + Len(b) THEN <<>>
    ELSE LET t == columnSum(a, b, k, 0) + carry
         IN <<t % 256>> \o timesFrom(a, b, k + 1, t \div 256)

\* The product of two numbers, in full: Len(a) + Len(b) bytes.
times(a, b) == timesFrom(a, b, 0, 0)

\* a * b on u64: an overflow panics in a debug build and wraps in a release
\* build.
u64_mul(a, b, build) ==
    LET wide == times(a, b)
        overflow == \E k \in (IdBytes + 1)..Len(wide) : wide[k] # 0
    IN IF overflow /\ build = "debug" THEN [panic |-> TRUE, value |-> u64(0)]
       ELSE [panic |-> FALSE, value |-> SubSeq(wide, 1, IdBytes)]

\* .map(|corner| corner.id).product(): the fold of * from 1
RECURSIVE product(_, _, _, _)
product(corners, k, acc, build) ==
    IF acc.panic \/ k > Len(corners) THEN acc
    ELSE product(corners, k + 1, u64_mul(acc.value, corners[k].id, build), build)

\* Vec::get: <<element>>, or <<>> for None
get(v, index) == IF index < Len(v) THEN <<v[index + 1]>> ELSE <<>>

\* The largest grid edge of the arrangements part1 is given.
MaxCornerN == 3

\* The tile ids the arrangements are numbered with: four ids of five digits
\* and twelve small ones.
IdPool ==
    << 65536, 65537, 65539, 65543, 2, 3, 5, 7, 11, 13, 17, 19, 23, 29, 31, 37 >>

\* A completed arrangement of n * n tiles, row-major; the tile at position p
\* carries the id at position (shift + stride * p) of IdPool, taken round.
Numbered(n, shift, stride) ==
    [p \in 1..(n * n) |->
        LET id == u64(IdPool[((shift + stride * (p - 1)) % Len(IdPool)) + 1])
        IN [id |-> id,
            tile |-> [id |-> id, pixels |-> << <<".">> >>],
            pixels |-> << <<".">> >>,
            transformations |-> <<>>]]

\* part1 after get_valid_arrangements has returned: no arrangement, or the
\* arrangement of the n * n tiles of the input (none for an empty input).
CornersInit ==
    /\ \E build \in {"debug", "release"} :
         \/ \E n \in 0..MaxCornerN :
              \E shift \in 0..(Len(IdPool) - 1), stride \in {1, 3, 5, 7} :
                 answer = [build |-> build,
                           edge_length |-> n,
                           possible_arrangements |-> <<Numbered(n, shift, stride)>>,
                           corners |-> <<>>,
                           result |-> u64(0),
                           outcome |-> "searched"]
         \/ \E n \in 1..MaxCornerN :
              answer = [build |-> build,
                        edge_length |-> n,
                        possible_arrangements |-> <<>>,
                        corners |-> <<>>,
                        result |-> u64(0),
                        outcome |-> "searched"]
    /\ tiles = <<>>
    /\ pc = "input"
    /\ stack = <<>>
    /\ ret = <<>>
    /\ result = <<>>
    /\ tests = 0
    /\ perms = <<>>
    /\ probe = <<>>
    /\ coord = <<>>
    /\ compose = <<>>
    /\ scan = <<>>

\* tests::part1 from the assert to the println
Corners ==
    /\ answer.outcome = "searched"
    /\ LET edge == answer.edge_length
           possible_arrangements == answer.possible_arrangements
           panicked == [answer EXCEPT !.outcome = "panic"]
       IN IF possible_arrangements = <<>> THEN answer' = panicked
          ELSE LET arrangement == possible_arrangements[1]
                   top_right_index == usize_sub(edge, 1, answer.build)
                   bottom_left_index == usize_sub(Len(arrangement), edge, answer.build)
                   bottom_right_index == usize_sub(Len(arrangement), 1, answer.build)
                   top_left == get(arrangement, 0)
               IN IF top_left = <<>> \/ top_right_index.panic
                     \/ bottom_left_index.panic \/ bottom_right_index.panic
                  THEN answer' = panicked
                  ELSE LET top_right == get(arrangement, top_right_index.value)
                           bottom_left == get(arrangement, bottom_left_index.value)
                           bottom_right == get(arrangement, bottom_right_index.value)
                       IN IF top_right = <<>> \/ bottom_left = <<>> \/ bottom_right = <<>>
                          THEN answer' = panicked
                          ELSE LET corners == <<top_left[1], top_right[1],
                                                bottom_left[1], bottom_right[1]>>
                                   multiplied == product(corners, 1,
                                                         [panic |-> FALSE, value |-> u64(1)],
                                                         answer.build)
                               IN answer' = [answer EXCEPT
                                     !.corners = corners,
                                     !.result = multiplied.value,
                                     !.outcome = IF multiplied.panic THEN "panic"
                                                 ELSE "printed"]
    /\ UNCHANGED <<tiles, searchVars, perms, probe, coord, compose, scan>>

SpecCorners == CornersInit /\ [][Corners]_vars

\* The product of the ids of the tiles of corners as a number, in full.
RECURSIVE ProductOfIds(_, _)
ProductOfIds(corners, k) ==
    IF k > Len(corners) THEN <<1>>
    ELSE times(corners[k].id, ProductOfIds(corners, k + 1))

\* Two byte sequences are the same number.
SameNumber(a, b) ==
    \A k \in 1..(Len(a) + Len(b)) :
        (IF k <= Len(a) THEN a[k] ELSE 0) = (IF k <= Len(b) THEN b[k] ELSE 0)

\* The tile at row r, column c of a completed arrangement of edge n.
At(arrangement, n, r, c) == arrangement[r * n + c + 1]

GridCorners(arrangement, n) ==
    <<At(arrangement, n, 0, 0), At(arrangement, n, 0, n - 1),
      At(arrangement, n, n - 1, 0), At(arrangement, n, n - 1, n - 1)>>

CornersAnswered ==
    /\ answer.outcome # "searched"
    /\ answer.possible_arrangements # <<>>
    /\ answer.edge_length >= 1

\* C21: for a completed arrangement of N * N tiles, row-major, part1 takes the
\* tiles at the four corners of the grid, which for N >= 2 are four different
\* tiles, and its answer is the product of their four ids.
C21_AnswerIsTheProductOfTheCornerIds ==
    CornersAnswered =>
        LET n == answer.edge_length
            arrangement == answer.possible_arrangements[1]
        IN /\ answer.outcome = "printed"
           /\ answer.corners = GridCorners(arrangement, n)
           /\ n >= 2 => Cardinality({answer.corners[k].tile : k \in 1..4}) = 4
           /\ SameNumber(answer.result, ProductOfIds(GridCorners(arrangement, n), 1))

\* What holds of C21: the same whenever the product of the four ids is
\* below 2^64.
C21_AnswerWhenTheProductFits ==
    (/\ CornersAnswered
     /\ LET full == ProductOfIds(GridCorners(answer.possible_arrangements[1],
                                             answer.edge_length), 1)
        IN \A k \in (IdBytes + 1)..Len(full) : full[k] = 0)
    => C21_AnswerIsTheProductOfTheCornerIds

\* ------------------------------- further claims on highlight_seamonsters
\* All cells (row, column, from 0) of a grid of edge length E.
Cells(E) == (0..(E - 1)) \X (0..(E - 1))

\* The pattern is at anchor in grid g, cell by cell.
PatternAt(g, anchor) ==
    \A rc \in MonsterCells(anchor) :
        /\ rc[1] < Len(g)
        /\ rc[2] < Len(g[rc[1] + 1])
        /\ g[rc[1] + 1][rc[2] + 1] = "#"

\* The cells under a '#' of the pattern at a tested anchor where the pattern
\* is in grid g: the windows a call on g can have counted.
CountedCells(g, call) ==
    UNION {MonsterCells(a) : a \in {b \in Tested(call) : PatternAt(g, b)}}

\* C24: highlight_seamonsters changes only its own copy of the pixels: every
\* cell of the returned tile that is not under a '#' of the pattern in a
\* counted window is the cell of the oriented composite, and the oriented
\* tile the call was made on, with the tile it refers to, stays what it was.
C24_OnlyTheCopyChanges ==
    /\ [](\A oriented \in {Oriented} :
            \A n \in 1..Len(scan.calls) :
                ~scan.calls[n].panic =>
                    \A returned \in {scan.calls[n].tile.pixels} :
                        /\ Len(returned) = Len(oriented)
                        /\ \A rc \in Cells(Len(oriented)) \ CountedCells(oriented, scan.calls[n]) :
                              returned[rc[1] + 1][rc[2] + 1] = oriented[rc[1] + 1][rc[2] + 1])
    /\ [][scan'.permutation = scan.permutation]_vars

\* A call that counted a sea monster, so that the tile it returned differs
\* from the oriented composite, which shows no highlighting.
C24_Witness ==
    /\ Len(scan.calls) = 1
    /\ scan.calls[1].sum >= 1
    /\ scan.calls[1].tile.pixels # Oriented
    /\ CellsHolding(Oriented, "0") = {}
    /\ CellsHolding(scan.permutation.tile.pixels, "0") = {}

\* C29: on a composite whose edge length is below the window's height or
\* width, highlight_seamonsters computes its ranges without an unsigned
\* underflow, reads no pixel outside the grid, and returns the count 0 with
\* the pixels unchanged.
C29_SmallCompositeIsReturnedUnchanged ==
    \A n \in 1..Len(scan.calls) :
        Len(Oriented) < window_width =>
            /\ ~scan.calls[n].panic
            /\ scan.calls[n].sum = 0
            /\ scan.calls[n].tile.pixels = Oriented

\* The cells of grid g that hold ch, counted.
HowMany(g, ch) ==
    Cardinality({rc \in Cells(Len(g)) : g[rc[1] + 1][rc[2] + 1] = ch})

\* C30: in the returned tile every '0' cell was a '#' of the oriented
\* composite, no other cell of the composite has changed, and the number of
\* '0' cells plus the roughness is the number of '#' cells of the composite.
C30_HighlightsOnlyRoughCells ==
    [](\A oriented \in {Oriented} :
         \A n \in 1..Len(scan.calls) :
            ~scan.calls[n].panic =>
                \A returned \in {scan.calls[n].tile.pixels} :
                    /\ Len(returned) = Len(oriented)
                    /\ \A rc \in Cells(Len(oriented)) :
                         \A before \in {oriented[rc[1] + 1][rc[2] + 1]},
                            after \in {returned[rc[1] + 1][rc[2] + 1]} :
                              /\ after = "0" => before = "#"
                              /\ before # "#" => after = before
                              /\ after \in {before, "0"}
                    /\ HowMany(returned, "0") + roughness(scan.calls[n].tile)
                         = HowMany(oriented, "#"))

\* A call that has highlighted a sea monster and left a '#' rough, next to
\* background cells.
C30_Witness ==
    /\ Len(scan.calls) >= 1
    /\ ~scan.calls[1].panic
    /\ CellsHolding(scan.calls[1].tile.pixels, "0") # {}
    /\ CellsHolding(scan.calls[1].tile.pixels, "#") # {}
    /\ CellsHolding(scan.calls[1].tile.pixels, ".") # {}

====
